---- MODULE Spec2Model ----
(***************************************************************************)
(* Model of the Yelp search client (src/src/mcp_server/yelp/client.py),    *)
(* its response models (src/src/mcp_server/yelp/models.py) and the MCP     *)
(* tool search_yelp_businesses (src/src/mcp_server/server.py).             *)
(*                                                                         *)
(* A task is one coroutine.  It either runs the tool function              *)
(* search_yelp_businesses, or uses a YelpClient directly the way the unit  *)
(* tests do (entering the scope, calling search_businesses, leaving the    *)
(* scope, in any order the language allows).  Every task owns the          *)
(* YelpClient object it constructs.                                        *)
(***************************************************************************)
EXTENDS Integers, Sequences, FiniteSets, TLC

\* ------------------------------------------------------------------ bounds
\* Number of concurrent tasks.
NumTasks == 2
\* search_businesses calls a task that uses the client directly may make.
MaxCalls == 2

\* ------------------------------------------------------- program constants
\* stop_after_attempt(3)
MaxAttempts == 3
\* wait_exponential(multiplier=1, min=1, max=10)
WaitMultiplier == 1
WaitMin == 1
WaitMax == 10

Tasks == 1..NumTasks

\* self._client = None
None == 0

VARIABLES
    _client,   \* _client[t]: the field YelpClient._client of task t's client
    conns,     \* every httpx.AsyncClient ever constructed, in order
    role,      \* role[t]: "idle", "tool" or "direct"
    scope,     \* scope[t]: position relative to the `async with` block
    scopeConn, \* scopeConn[t]: the connection opened when t entered its scope
    ncalls,    \* ncalls[t]: search_businesses calls begun by t
    call,      \* call[t]: the search_businesses call of t (tenacity's state)
    tool,      \* tool[t]: how search_yelp_businesses ended for t
    query,     \* the arguments of one search_businesses call and its query
    model,     \* one Business(**data) and what a method of it returned
    callback,  \* one run of suppress_text_output_callback
    shared     \* one YelpClient object and the scopes entered on it

\* The coroutines and their clients.
main == <<_client, conns, role, scope, scopeConn, ncalls, call, tool>>
\* One function followed on its own, aside from the coroutines.
aside == <<query, model, callback, shared>>

vars == <<main, aside>>

\* ------------------------------------------------------------- exceptions
\* The class hierarchy the except clauses and the retry predicate test
\* against: httpx's, the standard library's and src/mcp_server/exceptions.py.
Parent(cls) ==
    CASE cls = "YelpAuthError"      -> "YelpAPIError"
      [] cls = "YelpRateLimitError" -> "YelpAPIError"
      [] cls = "YelpAPIError"       -> "Exception"
      [] cls = "ReadTimeout"        -> "TimeoutException"
      [] cls = "ConnectTimeout"     -> "TimeoutException"
      [] cls = "TimeoutException"   -> "TransportError"
      [] cls = "ConnectError"       -> "NetworkError"
      [] cls = "ReadError"          -> "NetworkError"
      [] cls = "NetworkError"       -> "TransportError"
      [] cls = "TransportError"     -> "RequestError"
      [] cls = "TooManyRedirects"   -> "RequestError"
      [] cls = "RequestError"       -> "HTTPError"
      [] cls = "HTTPStatusError"    -> "HTTPError"
      [] cls = "HTTPError"          -> "Exception"
      [] cls = "JSONDecodeError"    -> "ValueError"
      [] cls = "ValidationError"    -> "ValueError"
      [] cls = "ValueError"         -> "Exception"
      [] cls = "AttributeError"     -> "Exception"
      [] cls = "TypeError"          -> "Exception"
      [] cls = "RuntimeError"       -> "Exception"
      [] cls = "OSError"            -> "Exception"
      [] cls = "Exception"          -> "BaseException"
      [] cls = "CancelledError"     -> "BaseException"
      [] OTHER                      -> "object"

RECURSIVE IsInstance(_, _)
IsInstance(cls, base) ==
    IF cls = base THEN TRUE
    ELSE IF cls = "object" THEN FALSE
    ELSE IsInstance(Parent(cls), base)

\* An exception object: its class, str(e), the HTTP status of its response
\* (HTTPStatusError only) and the class of its __cause__ (raise ... from e).
Exc(cls, msg, status, cause) ==
    [cls |-> cls, msg |-> msg, status |-> status, cause |-> cause]

NoExc == Exc("None", "", 0, "None")

\* raise Cls(msg) from e
RaiseFrom(cls, msg, e) == Exc(cls, msg, 0, e.cls)

\* ------------------------------------------------------------ JSON values
\* A JSON / Python value carries its type: None, str, int or float, bool,
\* list, dict.  NotJson is a response body that json() cannot decode.
\* Numbers are integers in the unit of their field: rating in tenths
\* (45 is 4.5), distance in metres, review_count and total as they are.
JNull == [t |-> "null"]
JStr(s) == [t |-> "str", v |-> s]
JNum(n) == [t |-> "num", v |-> n]
JBool(b) == [t |-> "bool", v |-> b]
JArr(a) == [t |-> "arr", v |-> a]
JObj(r) == [t |-> "obj", v |-> r]
NotJson == [t |-> "notjson"]
EmptyObj == [t |-> "obj", v |-> <<>>]

\* key in dict
Has(o, k) == k \in DOMAIN o.v
\* dict.get(k, d)
Get(o, k, d) == IF Has(o, k) THEN o.v[k] ELSE d

\* bool(v): Python truthiness
Truthy(v) ==
    CASE v.t = "null" -> FALSE
      [] v.t = "str"  -> v.v # ""
      [] v.t = "num"  -> v.v # 0
      [] v.t = "bool" -> v.v
      [] v.t = "arr"  -> Len(v.v) > 0
      [] OTHER        -> DOMAIN v.v # {}

\* ---------------------------------------------------------- response model
\* Pydantic field validation (lax mode, no model_config), on the values the
\* bounded inputs hold.  A number field takes a number, or a string that
\* reads as one and is converted; a string field takes only a string.
\* The strings of the inputs that read as a number.
NumericStrings == {"100"}

\* int("100")
StrToNum(s) == CASE s = "100" -> 100

\* The value fits a field declared int or float.
IsNum(v) == v.t = "num" \/ (v.t = "str" /\ v.v \in NumericStrings)

\* The number a field declared int or float holds after validation.
AsNum(v) == IF v.t = "str" THEN JNum(StrToNum(v.v)) ELSE v

\* name: str
ReqStr(o, k) == Has(o, k) /\ o.v[k].t = "str"
\* name: str | None = None
OptStr(o, k) == Has(o, k) => o.v[k].t \in {"str", "null"}
\* name: int = 0, name: float = 0.0
DefNum(o, k) == Has(o, k) => IsNum(o.v[k])
\* name: float | None = None
OptNum(o, k) == Has(o, k) => (o.v[k].t = "null" \/ IsNum(o.v[k]))
\* name: bool = False
DefBool(o, k) == Has(o, k) => o.v[k].t = "bool"
\* name: bool | None = None
OptBool(o, k) == Has(o, k) => o.v[k].t \in {"bool", "null"}

\* class Coordinates / class RegionCenter
ValidCoordinates(j) ==
    /\ j.t = "obj"
    /\ Has(j, "latitude") /\ j.v["latitude"].t = "num"
    /\ Has(j, "longitude") /\ j.v["longitude"].t = "num"

\* class Location
ValidLocation(j) ==
    /\ j.t = "obj"
    /\ \A k \in {"address1", "address2", "address3", "city", "zip_code",
                 "country", "state"} : OptStr(j, k)
    /\ Has(j, "display_address") =>
          /\ j.v["display_address"].t = "arr"
          /\ \A i \in DOMAIN j.v["display_address"].v :
                j.v["display_address"].v[i].t = "str"

Location(j) ==
    [display_address |-> Get(j, "display_address", JArr(<<>>)).v,
     city |-> Get(j, "city", JNull)]

\* class Category
ValidCategory(j) == j.t = "obj" /\ ReqStr(j, "alias") /\ ReqStr(j, "title")

Category(j) == [alias |-> j.v["alias"].v, title |-> j.v["title"].v]

\* class BusinessHours (the open slots are not read by any operation)
ValidBusinessHours(j) ==
    /\ j.t = "obj"
    /\ Has(j, "hours_type") => j.v["hours_type"].t = "str"
    /\ DefBool(j, "is_open_now")
    /\ Has(j, "open") => j.v["open"].t = "arr"

BusinessHours(j) ==
    [hours_type |-> Get(j, "hours_type", JStr("REGULAR")).v,
     is_open_now |-> Get(j, "is_open_now", JBool(FALSE)).v]

\* class Attributes
ValidAttributes(j) ==
    /\ j.t = "obj"
    /\ OptBool(j, "business_temp_closed")
    /\ OptStr(j, "menu_url")
    /\ OptBool(j, "open24_hours")
    /\ OptBool(j, "waitlist_reservation")

Attributes(j) == [menu_url |-> Get(j, "menu_url", JNull)]

\* name: list[...] = Field(default_factory=list): absent, or a list
IsList(o, k) == Has(o, k) => o.v[k].t = "arr"
\* the items of such a field
Items(o, k) == IF Has(o, k) /\ o.v[k].t = "arr" THEN o.v[k].v ELSE <<>>

\* class Business: the fields and their types; nothing constrains a value.
ValidBusiness(j) ==
    /\ j.t = "obj"
    /\ ReqStr(j, "id") /\ ReqStr(j, "alias") /\ ReqStr(j, "name")
    /\ ReqStr(j, "url")
    /\ OptStr(j, "image_url")
    /\ DefBool(j, "is_closed")
    /\ DefNum(j, "review_count")
    /\ IsList(j, "categories")
    /\ \A i \in DOMAIN Items(j, "categories") :
          ValidCategory(Items(j, "categories")[i])
    /\ DefNum(j, "rating")
    /\ Has(j, "coordinates") /\ ValidCoordinates(j.v["coordinates"])
    /\ OptStr(j, "price")
    /\ Has(j, "location") /\ ValidLocation(j.v["location"])
    /\ OptStr(j, "phone")
    /\ OptStr(j, "display_phone")
    /\ OptNum(j, "distance")
    /\ IsList(j, "business_hours")
    /\ \A i \in DOMAIN Items(j, "business_hours") :
          ValidBusinessHours(Items(j, "business_hours")[i])
    /\ Has(j, "attributes") =>
          j.v["attributes"].t = "null" \/ ValidAttributes(j.v["attributes"])

\* Business(**data): absent optional fields take their defaults.
Business(j) ==
    [id |-> j.v["id"].v,
     alias |-> j.v["alias"].v,
     name |-> j.v["name"].v,
     url |-> j.v["url"].v,
     review_count |-> AsNum(Get(j, "review_count", JNum(0))).v,
     categories |->
         [i \in DOMAIN Items(j, "categories") |->
              Category(Items(j, "categories")[i])],
     rating |-> AsNum(Get(j, "rating", JNum(0))).v,
     price |-> Get(j, "price", JNull),
     location |-> Location(j.v["location"]),
     phone |-> Get(j, "phone", JNull),
     display_phone |-> Get(j, "display_phone", JNull),
     distance |-> AsNum(Get(j, "distance", JNull)),
     business_hours |->
         [i \in DOMAIN Items(j, "business_hours") |->
              BusinessHours(Items(j, "business_hours")[i])],
     attributes |->
         IF Get(j, "attributes", JNull).t = "null" THEN JNull
         ELSE JObj(Attributes(j.v["attributes"]))]

\* class SearchResponse
ValidSearchResponse(data) ==
    /\ IsList(data, "businesses")
    /\ \A i \in DOMAIN Items(data, "businesses") :
          ValidBusiness(Items(data, "businesses")[i])
    /\ DefNum(data, "total")
    /\ Has(data, "region") =>
          \/ data.v["region"].t = "null"
          \/ /\ data.v["region"].t = "obj"
             /\ Has(data.v["region"], "center")
             /\ ValidCoordinates(data.v["region"].v["center"])

SearchResponse(data) ==
    [businesses |->
         [i \in DOMAIN Items(data, "businesses") |->
              Business(Items(data, "businesses")[i])],
     total |-> AsNum(Get(data, "total", JNum(0))).v]

NoResponse == [businesses |-> <<>>, total |-> 0]

\* sep.join(strs)
RECURSIVE Join(_, _)
Join(strs, sep) ==
    IF Len(strs) = 0 THEN ""
    ELSE IF Len(strs) = 1 THEN strs[1]
    ELSE strs[1] \o sep \o Join(Tail(strs), sep)

\* Business.get_categories_str
get_categories_str(b) ==
    Join([i \in 1..Len(b.categories) |-> b.categories[i].title], ", ")

\* Business.get_address_str
get_address_str(b) ==
    Join([i \in 1..Len(b.location.display_address) |->
              b.location.display_address[i].v], ", ")

\* Business.get_price_level
get_price_level(b) == IF Truthy(b.price) THEN Len(b.price.v) ELSE 0

\* is_open_now with any entry of business_hours deciding.
is_open_now_AnyEntry(b) ==
    \E i \in DOMAIN b.business_hours : b.business_hours[i].is_open_now

\* Business.is_open_now
is_open_now(b) ==
    IF Len(b.business_hours) > 0 THEN b.business_hours[1].is_open_now
    ELSE FALSE

\* ------------------------------------------------------------ the upstream
\* What one physical request can come to: httpx raises, or a response with
\* a status and a body arrives.
Raises(cls, text) ==
    [kind |-> "raise", cls |-> cls, text |-> text, status |-> 0,
     body |-> NotJson]
Response(status, body) ==
    [kind |-> "response", cls |-> "None", text |-> "", status |-> status,
     body |-> body]

Coords == JObj([latitude |-> JNum(51), longitude |-> JNum(0)])

Biz1 ==
    JObj([id |-> JStr("b1"), alias |-> JStr("one-london"),
          name |-> JStr("One"), url |-> JStr("https://yelp.test/b1"),
          rating |-> JNum(45), review_count |-> JNum(100),
          price |-> JStr("$$"), distance |-> JNum(500),
          coordinates |-> Coords,
          categories |-> JArr(<<JObj([alias |-> JStr("italian"),
                                      title |-> JStr("Italian")]),
                                JObj([alias |-> JStr("pizza"),
                                      title |-> JStr("Pizza")])>>),
          location |-> JObj([display_address |->
                                JArr(<<JStr("1 High St"), JStr("London")>>)]),
          phone |-> JStr("+442000000001"),
          display_phone |-> JStr("020 0000 0001")])

Biz2 ==
    JObj([id |-> JStr("b2"), alias |-> JStr("two-london"),
          name |-> JStr("Two"), url |-> JStr("https://yelp.test/b2"),
          rating |-> JNum(40),
          coordinates |-> Coords,
          location |-> EmptyObj,
          phone |-> JStr("+442000000002")])

\* no "id"
BizNoId ==
    JObj([alias |-> JStr("three-london"), name |-> JStr("Three"),
          url |-> JStr("https://yelp.test/b3"), coordinates |-> Coords,
          location |-> EmptyObj])

\* no "coordinates"
BizNoCoordinates ==
    JObj([id |-> JStr("b4"), alias |-> JStr("four-london"),
          name |-> JStr("Four"), url |-> JStr("https://yelp.test/b4"),
          location |-> EmptyObj])

\* "name" a number
BizNameNumber ==
    JObj([id |-> JStr("b5"), alias |-> JStr("five-london"),
          name |-> JNum(5), url |-> JStr("https://yelp.test/b5"),
          coordinates |-> Coords, location |-> EmptyObj])

\* "rating" a word
BizRatingWord ==
    JObj([id |-> JStr("b6"), alias |-> JStr("six-london"),
          name |-> JStr("Six"), url |-> JStr("https://yelp.test/b6"),
          rating |-> JStr("high"),
          coordinates |-> Coords, location |-> EmptyObj])

\* "review_count" a string of digits
BizReviewCountString ==
    JObj([id |-> JStr("b7"), alias |-> JStr("seven-london"),
          name |-> JStr("Seven"), url |-> JStr("https://yelp.test/b7"),
          review_count |-> JStr("100"),
          coordinates |-> Coords, location |-> EmptyObj])

\* a rating of 7.0
BizRating70 ==
    JObj([id |-> JStr("b8"), alias |-> JStr("eight-london"),
          name |-> JStr("Eight"), url |-> JStr("https://yelp.test/b8"),
          rating |-> JNum(70),
          coordinates |-> Coords, location |-> EmptyObj])

\* a review count and a distance below 0
BizNegative ==
    JObj([id |-> JStr("b9"), alias |-> JStr("nine-london"),
          name |-> JStr("Nine"), url |-> JStr("https://yelp.test/b9"),
          rating |-> JNum(40), review_count |-> JNum(-1),
          distance |-> JNum(-5),
          coordinates |-> Coords, location |-> EmptyObj])

\* the optional values there and empty: a distance of 0, a display phone
\* and a price that are the empty string
BizEmptyValues ==
    JObj([id |-> JStr("b10"), alias |-> JStr("ten-london"),
          name |-> JStr("Ten"), url |-> JStr("https://yelp.test/b10"),
          rating |-> JNum(35), distance |-> JNum(0),
          price |-> JStr(""), display_phone |-> JStr(""),
          phone |-> JStr("+442000000010"),
          coordinates |-> Coords, location |-> EmptyObj])

\* A 2xx body with the one business b.
OneBusiness(b) == JObj([businesses |-> JArr(<<b>>), total |-> JNum(1)])

OkBodies ==
    {OneBusiness(b) :
        b \in {BizNoCoordinates, BizNameNumber, BizRatingWord,
               BizReviewCountString, BizRating70, BizNegative,
               BizEmptyValues}}
    \cup
    {JObj([businesses |-> JArr(<<>>), total |-> JNum(0)]),
     JObj([businesses |-> JArr(<<>>), total |-> JNum(3)]),
     JObj([businesses |-> JArr(<<Biz1>>), total |-> JNum(1)]),
     JObj([businesses |-> JArr(<<Biz2, Biz1>>), total |-> JNum(2)]),
     JObj([businesses |-> JArr(<<BizNoId>>), total |-> JNum(1)]),
     JObj([businesses |-> JNull, total |-> JNum(0)]),
     JArr(<<>>),
     NotJson}

BadRequestBodies ==
    {JObj([error |-> JObj([code |-> JStr("VALIDATION_ERROR"),
                           description |->
                               JStr("Invalid location parameter")])]),
     JObj([error |-> JObj([code |-> JStr("VALIDATION_ERROR")])]),
     EmptyObj,
     JObj([error |-> JStr("bad request")]),
     JArr(<<>>),
     NotJson}

Upstream ==
    {Raises("ReadTimeout", "The read operation timed out"),
     Raises("ConnectError", "All connection attempts failed"),
     Raises("ReadError", "Connection reset by peer"),
     Raises("TooManyRedirects", "Exceeded maximum allowed redirects.")}
    \cup {Response(200, b) : b \in OkBodies}
    \cup {Response(400, b) : b \in BadRequestBodies}
    \cup {Response(s, NotJson) : s \in {401, 404, 429, 500, 503}}

\* The requests of task 1 meet every outcome above; those of the tasks that
\* run beside it meet one outcome of each class (a result, a status the
\* client translates, a transport failure).
UpstreamOf(t) ==
    IF t = 1 THEN Upstream
    ELSE {Response(200, JObj([businesses |-> JArr(<<Biz1>>),
                              total |-> JNum(1)])),
          Response(503, NotJson),
          Raises("ReadTimeout", "The read operation timed out")}

\* str(e) of the HTTPStatusError response.raise_for_status() raises
StatusText(status) ==
    (IF status >= 500 THEN "Server error '" ELSE "Client error '")
        \o ToString(status) \o "' for url"

\* ------------------------------------------------------------- the client
\* How one run of the body of search_businesses ends: a return value or an
\* exception.
Returned(value) == [ok |-> TRUE, value |-> value, exc |-> NoExc]
Failed(e) == [ok |-> FALSE, value |-> NoResponse, exc |-> e]

\* f"{v}"
Format(v) ==
    CASE v.t = "str"  -> v.v
      [] v.t = "null" -> "None"
      [] v.t = "num"  -> ToString(v.v)
      [] v.t = "bool" -> IF v.v THEN "True" ELSE "False"
      [] OTHER        -> "<object>"

\* The try block: get, raise_for_status, json, the log line's
\* len(data.get('businesses', [])), SearchResponse(**data).
TryBlock(u) ==
    IF u.kind = "raise" THEN Failed(Exc(u.cls, u.text, 0, "None"))
    ELSE IF u.status \notin 200..299
    THEN Failed(Exc("HTTPStatusError", StatusText(u.status), u.status, "None"))
    ELSE IF u.body.t = "notjson"
    THEN Failed(Exc("JSONDecodeError",
                    "Expecting value: line 1 column 1 (char 0)", 0, "None"))
    ELSE IF u.body.t # "obj"
    THEN Failed(Exc("AttributeError",
                    "'list' object has no attribute 'get'", 0, "None"))
    ELSE IF Get(u.body, "businesses", JArr(<<>>)).t \in {"null", "num", "bool"}
    THEN Failed(Exc("TypeError",
                    "object of type 'NoneType' has no len()", 0, "None"))
    ELSE IF ~ValidSearchResponse(u.body)
    THEN Failed(Exc("ValidationError",
                    "1 validation error for SearchResponse", 0, "None"))
    ELSE Returned(SearchResponse(u.body))

\* The status 400 branch.  e.response.json() and the two .get run inside the
\* except clause, so what they raise leaves search_businesses as it is.
BadRequest(e, body) ==
    IF body.t = "notjson"
    THEN Exc("JSONDecodeError",
             "Expecting value: line 1 column 1 (char 0)", 0, "None")
    ELSE IF body.t # "obj"
    THEN Exc("AttributeError", "'list' object has no attribute 'get'",
             0, "None")
    ELSE IF Get(body, "error", EmptyObj).t # "obj"
    THEN Exc("AttributeError", "'str' object has no attribute 'get'",
             0, "None")
    ELSE RaiseFrom("YelpAPIError",
                   "Bad request: "
                       \o Format(Get(Get(body, "error", EmptyObj),
                                     "description", JStr(e.msg))),
                   e)

\* HandleException with 429 answered like 401.
HandleException_AuthFor429(e, body) ==
    IF IsInstance(e.cls, "HTTPStatusError")
    THEN IF e.status \in {401, 429}
         THEN RaiseFrom("YelpAuthError", "Invalid Yelp API key", e)
         ELSE IF e.status = 400
         THEN BadRequest(e, body)
         ELSE RaiseFrom("YelpAPIError", "Yelp API error: " \o e.msg, e)
    ELSE IF IsInstance(e.cls, "TimeoutException")
    THEN RaiseFrom("YelpAPIError", "Yelp API request timed out", e)
    ELSE IF IsInstance(e.cls, "RequestError")
    THEN RaiseFrom("YelpAPIError", "Network error: " \o e.msg, e)
    ELSE IF IsInstance(e.cls, "Exception")
    THEN RaiseFrom("YelpAPIError", "Unexpected error: " \o e.msg, e)
    ELSE e

\* HandleException with `except httpx.RequestError` placed before
\* `except httpx.TimeoutException`.
HandleException_RequestErrorFirst(e, body) ==
    IF IsInstance(e.cls, "HTTPStatusError")
    THEN IF e.status = 401
         THEN RaiseFrom("YelpAuthError", "Invalid Yelp API key", e)
         ELSE IF e.status = 429
         THEN RaiseFrom("YelpRateLimitError", "Yelp API rate limit exceeded", e)
         ELSE IF e.status = 400
         THEN BadRequest(e, body)
         ELSE RaiseFrom("YelpAPIError", "Yelp API error: " \o e.msg, e)
    ELSE IF IsInstance(e.cls, "RequestError")
    THEN RaiseFrom("YelpAPIError", "Network error: " \o e.msg, e)
    ELSE IF IsInstance(e.cls, "TimeoutException")
    THEN RaiseFrom("YelpAPIError", "Yelp API request timed out", e)
    ELSE IF IsInstance(e.cls, "Exception")
    THEN RaiseFrom("YelpAPIError", "Unexpected error: " \o e.msg, e)
    ELSE e

\* The except clauses of search_businesses, in their order.
HandleException(e, body) ==
    IF IsInstance(e.cls, "HTTPStatusError")
    THEN IF e.status = 401
         THEN RaiseFrom("YelpAuthError", "Invalid Yelp API key", e)
         ELSE IF e.status = 429
         THEN RaiseFrom("YelpRateLimitError", "Yelp API rate limit exceeded", e)
         ELSE IF e.status = 400
         THEN BadRequest(e, body)
         ELSE RaiseFrom("YelpAPIError", "Yelp API error: " \o e.msg, e)
    ELSE IF IsInstance(e.cls, "TimeoutException")
    THEN RaiseFrom("YelpAPIError", "Yelp API request timed out", e)
    ELSE IF IsInstance(e.cls, "RequestError")
    THEN RaiseFrom("YelpAPIError", "Network error: " \o e.msg, e)
    ELSE IF IsInstance(e.cls, "Exception")
    THEN RaiseFrom("YelpAPIError", "Unexpected error: " \o e.msg, e)
    ELSE e

\* The body of search_businesses from the response on.
Body(u) ==
    IF TryBlock(u).ok THEN TryBlock(u)
    ELSE Failed(HandleException(TryBlock(u).exc, u.body))

\* _is_retryable_http_error
_is_retryable_http_error(exception) ==
    IF IsInstance(exception.cls, "HTTPStatusError")
    THEN exception.status >= 500
    ELSE FALSE

\* RetryPredicate with every YelpAPIError retried as well.
RetryPredicate_AnyYelpError(exception) ==
    \/ IsInstance(exception.cls, "TimeoutException")
    \/ IsInstance(exception.cls, "NetworkError")
    \/ IsInstance(exception.cls, "ConnectError")
    \/ _is_retryable_http_error(exception)
    \/ IsInstance(exception.cls, "YelpAPIError")

\* RetryPredicate with retry=retry_always.
RetryPredicate_Always(exception) == TRUE

\* retry=(...): tested on the exception that leaves the decorated function
RetryPredicate(exception) ==
    \/ IsInstance(exception.cls, "TimeoutException")
    \/ IsInstance(exception.cls, "NetworkError")
    \/ IsInstance(exception.cls, "ConnectError")
    \/ _is_retryable_http_error(exception)

\* stop=stop_after_attempt(3)
stop_after_attempt(attempt_number) == attempt_number >= MaxAttempts

RECURSIVE Pow2(_)
Pow2(n) == IF n <= 0 THEN 1 ELSE 2 * Pow2(n - 1)

Min(a, b) == IF a <= b THEN a ELSE b
Max(a, b) == IF a >= b THEN a ELSE b

\* wait=wait_exponential(multiplier=1, min=1, max=10), in seconds
wait_exponential(attempt_number) ==
    Max(WaitMin, Min(WaitMultiplier * Pow2(attempt_number - 1), WaitMax))

\* GuardFailure with the guard placed inside the try block.
GuardFailure_Translated ==
    Failed(HandleException(
        Exc("RuntimeError",
            "Client not initialised. Use async context manager.", 0, "None"),
        NotJson))

\* `if not self._client: raise RuntimeError(...)`, ahead of the try block
GuardFailure ==
    Failed(Exc("RuntimeError",
               "Client not initialised. Use async context manager.",
               0, "None"))

\* A search_businesses call that has not begun.
NoCall ==
    [state |-> "none", attempt_number |-> 0, requests |-> 0,
     outcomes |-> <<>>, waits |-> <<>>, conn |-> None, ok |-> FALSE,
     value |-> NoResponse, exc |-> NoExc]

\* AfterAttempt with a ValidationError behind the failure retried as well.
AfterAttempt_RetryInvalidBody(c, out) ==
    IF out.ok
    THEN [c EXCEPT !.state = "returned", !.ok = TRUE, !.value = out.value]
    ELSE IF (RetryPredicate(out.exc) \/ out.exc.cause = "ValidationError")
            /\ ~stop_after_attempt(c.attempt_number)
    THEN [c EXCEPT !.state = "ready",
                   !.attempt_number = @ + 1,
                   !.waits = Append(@, wait_exponential(c.attempt_number))]
    ELSE [c EXCEPT !.state = "raised", !.exc = out.exc]

\* AfterAttempt with every failure retried and one more attempt allowed.
AfterAttempt_RetryAnyFailureOnceMore(c, out) ==
    IF out.ok
    THEN [c EXCEPT !.state = "returned", !.ok = TRUE, !.value = out.value]
    ELSE IF ~stop_after_attempt(c.attempt_number - 1)
    THEN [c EXCEPT !.state = "ready",
                   !.attempt_number = @ + 1,
                   !.waits = Append(@, wait_exponential(c.attempt_number))]
    ELSE [c EXCEPT !.state = "raised", !.exc = out.exc]

\* The retry decorator after one run of the body ended with `out`:
\* return the value, sleep and run the body again, or raise (reraise=True).
AfterAttempt(c, out) ==
    IF out.ok
    THEN [c EXCEPT !.state = "returned", !.ok = TRUE, !.value = out.value]
    ELSE IF RetryPredicate(out.exc) /\ ~stop_after_attempt(c.attempt_number)
    THEN [c EXCEPT !.state = "ready",
                   !.attempt_number = @ + 1,
                   !.waits = Append(@, wait_exponential(c.attempt_number))]
    ELSE [c EXCEPT !.state = "raised", !.exc = out.exc]

\* -------------------------------------------------------------- the query
\* limit: int = 20
DefaultLimit == 20
\* min(limit, 50)
MaxLimit == 50
\* min(radius, 40000)
MaxRadius == 40000

\* An argument the caller left out of the call.
NotPassed == [t |-> "notpassed"]

\* The value a parameter is bound to: the argument, or its default.
Bound(arg, default) == IF arg = NotPassed THEN default ELSE arg

\* str.lower(), on what str() of a bool yields
Lower(s) ==
    CASE s = "True"  -> "true"
      [] s = "False" -> "false"
      [] OTHER       -> s

\* LimitParam without the cap.
LimitParam_Unclamped(limit) == limit

\* "limit": min(limit, 50)
LimitParam(limit) == JNum(Min(limit.v, MaxLimit))

\* params["radius"] = min(radius, 40000)
RadiusParam(radius) == JNum(Min(radius.v, MaxRadius))

\* OpenNowParam without .lower().
OpenNowParam_NotLowered(open_now) == JStr(Format(open_now))

\* params["open_now"] = str(open_now).lower()
OpenNowParam(open_now) == JStr(Lower(Format(open_now)))

\* One optional entry of params: {k: v} when the `if` lets it in, else {}.
Entry(cond, k, v) == IF cond THEN k :> v ELSE <<>>

\* Params with `if term is not None:` for `if term:`.
Params_TermIfNotNone(args) ==
    [location |-> args.location,
     limit |-> LimitParam(Bound(args.limit, JNum(DefaultLimit))),
     sort_by |-> Bound(args.sort_by, JStr("best_match"))]
    @@ Entry(Bound(args.term, JNull).t # "null", "term",
             Bound(args.term, JNull))
    @@ Entry(Truthy(Bound(args.categories, JNull)), "categories",
             Bound(args.categories, JNull))
    @@ Entry(Truthy(Bound(args.price, JNull)), "price",
             Bound(args.price, JNull))
    @@ Entry(Truthy(Bound(args.radius, JNull)), "radius",
             RadiusParam(Bound(args.radius, JNull)))
    @@ Entry(Bound(args.open_now, JNull).t # "null", "open_now",
             OpenNowParam(Bound(args.open_now, JNull)))

\* The query search_businesses builds from its arguments: the dict literal
\* and the five `if`s that follow it.
Params(args) ==
    [location |-> args.location,
     limit |-> LimitParam(Bound(args.limit, JNum(DefaultLimit))),
     sort_by |-> Bound(args.sort_by, JStr("best_match"))]
    @@ Entry(Truthy(Bound(args.term, JNull)), "term",
             Bound(args.term, JNull))
    @@ Entry(Truthy(Bound(args.categories, JNull)), "categories",
             Bound(args.categories, JNull))
    @@ Entry(Truthy(Bound(args.price, JNull)), "price",
             Bound(args.price, JNull))
    @@ Entry(Truthy(Bound(args.radius, JNull)), "radius",
             RadiusParam(Bound(args.radius, JNull)))
    @@ Entry(Bound(args.open_now, JNull).t # "null", "open_now",
             OpenNowParam(Bound(args.open_now, JNull)))

\* The arguments callers pass.  None stands for itself; a limit of at most
\* 0 and a radius of 0 are integers like any other.
TermArgs == {NotPassed, JNull, JStr(""), JStr("coffee")}
CategoriesArgs == {NotPassed, JStr("cafes,coffee")}
PriceArgs == {NotPassed, JStr("1,2")}
RadiusArgs ==
    {NotPassed, JNull}
        \cup {JNum(n) : n \in {0, 1000, MaxRadius, MaxRadius + 1, 50000}}
LimitArgs ==
    {NotPassed}
        \cup {JNum(n) : n \in {-1, 0, 1, 10, DefaultLimit, MaxLimit,
                               MaxLimit + 1, 100}}
SortByArgs == {NotPassed, JStr("rating")}
OpenNowArgs == {NotPassed, JNull, JBool(TRUE), JBool(FALSE)}

Args ==
    [location : {JStr("London, UK")}, term : TermArgs,
     categories : CategoriesArgs, price : PriceArgs, radius : RadiusArgs,
     limit : LimitArgs, sort_by : SortByArgs, open_now : OpenNowArgs]

\* No call whose query is followed.
NoQuery == [state |-> "none"]

\* No Business built yet.
NoModel == [state |-> "none"]

\* `async with` blocks that may be entered on one YelpClient object.
NumScopes == 3
Scopes == 1..NumScopes

\* YelpClient(api_key): self._client = None; no connection, no scope
NewYelpClient ==
    [_client |-> None, conns |-> <<>>,
     scope |-> [s \in Scopes |-> "outside"]]

\* No run of the callback.
NoCallback == [state |-> "none"]

\* --------------------------------------------------------------- the tool
\* Or as `a if a is not None else b`.
Or_UnlessNone(a, b) == IF a.t # "null" THEN a ELSE b

\* a or b
Or(a, b) == IF Truthy(a) THEN a ELSE b

\* round(distance / 1609.34, 2), in hundredths of a mile
Miles(metres) == (2 * metres * 10000 + 160934) \div (2 * 160934)

\* business.model_dump() with the computed fields of the loop body
BusinessDict(b) ==
    [id |-> b.id,
     name |-> b.name,
     rating |-> b.rating,
     review_count |-> b.review_count,
     distance |-> b.distance,
     display_phone |-> b.display_phone,
     price |-> Or(b.price, JStr("N/A")),
     distance_meters |-> IF Truthy(b.distance) THEN b.distance ELSE JNull,
     distance_miles |->
         IF Truthy(b.distance) THEN JNum(Miles(b.distance.v)) ELSE JNull,
     categories |-> get_categories_str(b),
     address |-> get_address_str(b),
     phone |-> Or(b.display_phone, Or(b.phone, JStr("N/A")))]

RECURSIVE SumRatings(_)
SumRatings(bs) == IF Len(bs) = 0 THEN 0 ELSE bs[1].rating + SumRatings(Tail(bs))

\* f"{avg_rating:.1f}" of sum / n, the ratings in tenths; a tie goes to the
\* even digit (the ties the inputs reach, x.25 and x.75, are exact floats).
AvgText(sum, n) ==
    LET q == sum \div n
        r == sum % n
        tenths == IF 2 * r > n \/ (2 * r = n /\ q % 2 = 1) THEN q + 1 ELSE q
    IN  ToString(tenths \div 10) \o "." \o ToString(tenths % 10)

Summary(businesses_data) ==
    IF Len(businesses_data) > 0
    THEN "Found " \o ToString(Len(businesses_data)) \o " businesses"
             \o " (average rating: "
             \o AvgText(SumRatings(businesses_data), Len(businesses_data))
             \o ")"
    ELSE "Found " \o ToString(Len(businesses_data)) \o " businesses"

\* BusinessesData with the businesses in reverse order.
BusinessesData_Reversed(response) ==
    [i \in DOMAIN response.businesses |->
        BusinessDict(response.businesses[Len(response.businesses) + 1 - i])]

\* businesses_data after the loop
BusinessesData(response) ==
    [i \in DOMAIN response.businesses |-> BusinessDict(response.businesses[i])]

\* SuccessPayload with the number of businesses returned as the total.
SuccessPayload_TotalIsCount(response) ==
    [businesses |-> BusinessesData(response),
     total |-> Len(BusinessesData(response)),
     count |-> Len(BusinessesData(response)),
     summary |-> Summary(BusinessesData(response))]

\* result = {...}: the payload of a search that succeeded
SuccessPayload(response) ==
    [businesses |-> BusinessesData(response),
     total |-> response.total,
     count |-> Len(BusinessesData(response)),
     summary |-> Summary(BusinessesData(response))]

\* ErrorPayload with the summary text as the error.
ErrorPayload_SummaryAsError(prefix, e) ==
    [businesses |-> <<>>, total |-> 0, count |-> 0,
     summary |-> prefix \o e.msg, error |-> prefix \o e.msg]

ErrorPayload(prefix, e) ==
    [businesses |-> <<>>, total |-> 0, count |-> 0,
     summary |-> prefix \o e.msg, error |-> e.msg]

NoPayload == [none |-> TRUE]

\* search_yelp_businesses has not ended.
NoTool ==
    [state |-> "none", payload |-> NoPayload, exc |-> NoExc,
     caught |-> NoExc]

\* ToolEnd without the `except Exception` clause.
ToolEnd_NoCatchAll(e, response) ==
    IF e = NoExc
    THEN [state |-> "returned", payload |-> SuccessPayload(response),
          exc |-> NoExc, caught |-> NoExc]
    ELSE IF IsInstance(e.cls, "YelpAPIError")
    THEN [state |-> "returned", payload |-> ErrorPayload("Error: ", e),
          exc |-> NoExc, caught |-> e]
    ELSE [state |-> "raised", payload |-> NoPayload, exc |-> e,
          caught |-> NoExc]

\* The end of search_yelp_businesses: `e` is the exception that left the
\* `async with` block (NoExc when none did), `response` the value
\* search_businesses returned.  `caught` keeps the exception an except
\* clause bound, `exc` the one that left the function.
ToolEnd(e, response) ==
    IF e = NoExc
    THEN [state |-> "returned", payload |-> SuccessPayload(response),
          exc |-> NoExc, caught |-> NoExc]
    ELSE IF IsInstance(e.cls, "YelpAPIError")
    THEN [state |-> "returned", payload |-> ErrorPayload("Error: ", e),
          exc |-> NoExc, caught |-> e]
    ELSE IF IsInstance(e.cls, "Exception")
    THEN [state |-> "returned",
          payload |-> ErrorPayload("Unexpected error: ", e), exc |-> NoExc,
          caught |-> e]
    ELSE [state |-> "raised", payload |-> NoPayload, exc |-> e,
          caught |-> NoExc]

\* ---------------------------------------------------------------- actions
Init ==
    /\ _client = [t \in Tasks |-> None]
    /\ conns = <<>>
    /\ role = [t \in Tasks |-> "idle"]
    /\ scope = [t \in Tasks |-> "outside"]
    /\ scopeConn = [t \in Tasks |-> None]
    /\ ncalls = [t \in Tasks |-> 0]
    /\ call = [t \in Tasks |-> NoCall]
    /\ tool = [t \in Tasks |-> NoTool]
    /\ query = NoQuery
    /\ model = NoModel
    /\ callback = NoCallback
    /\ shared = NewYelpClient

\* NewConn with every connection that of one client shared by the tasks.
NewConn_OfSharedClient(t) == [owner |-> 1, state |-> "open"]

\* httpx.AsyncClient(...): a new connection, owned by the client of task t
NewConn(t) == [owner |-> t, state |-> "open"]

\* What constructing the httpx.AsyncClient raises when it fails.
OpenError ==
    Exc("OSError", "Could not find a suitable TLS CA certificate bundle",
        0, "None")

\* What aclose() raises when closing the transport fails.
CloseError == Exc("RuntimeError", "Event loop is closed", 0, "None")

\* aexit_closes with the close skipped when an exception leaves the block.
aexit_closes_OnSuccess(client, exc) == client # None /\ exc = NoExc

\* __aexit__: `if self._client:` decides whether aclose() is awaited;
\* exc is the exception leaving the block (NoExc on a normal exit).
aexit_closes(client, exc) == client # None

\* The call the retry decorator begins: attempt 1, nothing sent.
NewCall == [NoCall EXCEPT !.state = "ready", !.attempt_number = 1]

InCall(t) == call[t].state \in {"ready", "inflight"}
CallEnded(t) == call[t].state \in {"returned", "raised"}

\* search_yelp_businesses, from its start to the first await of
\* search_businesses: YelpClient(...), __aenter__, the call.
ToolCall(t) ==
    /\ role[t] = "idle"
    /\ \A o \in Tasks : role[o] # "direct"
    /\ role' = [role EXCEPT ![t] = "tool"]
    /\ \E opened \in BOOLEAN :
         IF opened
         THEN /\ conns' = Append(conns, NewConn(t))
              /\ _client' = [_client EXCEPT ![t] = Len(conns) + 1]
              /\ scopeConn' = [scopeConn EXCEPT ![t] = Len(conns) + 1]
              /\ scope' = [scope EXCEPT ![t] = "inside"]
              /\ call' = [call EXCEPT ![t] = NewCall]
              /\ ncalls' = [ncalls EXCEPT ![t] = @ + 1]
              /\ UNCHANGED <<tool, aside>>
         ELSE /\ tool' = [tool EXCEPT ![t] = ToolEnd(OpenError, NoResponse)]
              /\ UNCHANGED <<conns, _client, scopeConn, scope, call, ncalls,
                             aside>>

\* One run of the body of search_businesses up to `await self._client.get`:
\* the guard on self._client, the query, the request.  A closed
\* httpx.AsyncClient refuses to send (RuntimeError, inside the try block).
SendRequest(t) ==
    /\ call[t].state = "ready"
    /\ IF ~(_client[t] # None)
       THEN call' = [call EXCEPT ![t] = AfterAttempt(@, GuardFailure)]
       ELSE IF conns[_client[t]].state = "closed"
       THEN call' = [call EXCEPT ![t] =
                AfterAttempt(@, Failed(HandleException(Exc("RuntimeError",
                    "Cannot send a request, as the client has been closed.",
                    0, "None"), NotJson)))]
       ELSE call' = [call EXCEPT ![t].state = "inflight",
                                 ![t].requests = @ + 1,
                                 ![t].conn = _client[t]]
    /\ UNCHANGED <<_client, conns, role, scope, scopeConn, ncalls, tool,
                   aside>>

\* The request ends (u) and the body runs to its end; the retry decorator
\* decides what follows.
ReceiveResponse(t) ==
    /\ call[t].state = "inflight"
    /\ \E u \in UpstreamOf(t) :
         call' = [call EXCEPT ![t] =
                     AfterAttempt([@ EXCEPT !.outcomes = Append(@, u)],
                                  Body(u))]
    /\ UNCHANGED <<_client, conns, role, scope, scopeConn, ncalls, tool,
                   aside>>

\* search_yelp_businesses from the end of search_businesses on: __aexit__
\* (aclose may raise), the except clauses or the payload, the return.
ToolReturn(t) ==
    /\ role[t] = "tool"
    /\ CallEnded(t)
    /\ tool[t].state = "none"
    /\ \E closeRaises \in BOOLEAN :
         LET closes == aexit_closes(_client[t], call[t].exc)
             wasOpen == closes /\ conns[_client[t]].state = "open"
             leaving == IF wasOpen /\ closeRaises THEN CloseError
                        ELSE call[t].exc
         IN  /\ conns' = IF closes
                         THEN [conns EXCEPT ![_client[t]].state = "closed"]
                         ELSE conns
             /\ tool' = [tool EXCEPT ![t] = ToolEnd(leaving, call[t].value)]
    /\ scope' = [scope EXCEPT ![t] = "exited"]
    /\ UNCHANGED <<_client, role, scopeConn, ncalls, call, aside>>

\* A caller of the client itself enters `async with client`.
DirectEnter(t) ==
    /\ role[t] \in {"idle", "direct"}
    /\ \A o \in Tasks \ {t} : role[o] = "idle"
    /\ scope[t] = "outside"
    /\ ~InCall(t)
    /\ role' = [role EXCEPT ![t] = "direct"]
    /\ \E opened \in BOOLEAN :
         IF opened
         THEN /\ conns' = Append(conns, NewConn(t))
              /\ _client' = [_client EXCEPT ![t] = Len(conns) + 1]
              /\ scopeConn' = [scopeConn EXCEPT ![t] = Len(conns) + 1]
              /\ scope' = [scope EXCEPT ![t] = "inside"]
         ELSE UNCHANGED <<conns, _client, scopeConn, scope>>
    /\ UNCHANGED <<ncalls, call, tool, aside>>

\* A caller of the client itself awaits client.search_businesses(...).
DirectSearch(t) ==
    /\ role[t] \in {"idle", "direct"}
    /\ \A o \in Tasks \ {t} : role[o] = "idle"
    /\ ~InCall(t)
    /\ ncalls[t] < MaxCalls
    /\ role' = [role EXCEPT ![t] = "direct"]
    /\ call' = [call EXCEPT ![t] = NewCall]
    /\ ncalls' = [ncalls EXCEPT ![t] = @ + 1]
    /\ UNCHANGED <<_client, conns, scope, scopeConn, tool, aside>>

\* A caller of the client itself leaves `async with client`: __aexit__.
DirectExit(t) ==
    /\ role[t] = "direct"
    /\ scope[t] = "inside"
    /\ ~InCall(t)
    /\ conns' = IF aexit_closes(_client[t], call[t].exc)
                THEN [conns EXCEPT ![_client[t]].state = "closed"]
                ELSE conns
    /\ scope' = [scope EXCEPT ![t] = "exited"]
    /\ UNCHANGED <<_client, role, scopeConn, ncalls, call, tool, aside>>

Next ==
    \E t \in Tasks :
        \/ ToolCall(t)
        \/ SendRequest(t)
        \/ ReceiveResponse(t)
        \/ ToolReturn(t)
        \/ DirectEnter(t)
        \/ DirectSearch(t)
        \/ DirectExit(t)

Spec == Init /\ [][Next]_vars

\* asyncio.CancelledError, raised at the await the coroutine is suspended in
Cancelled == Raises("CancelledError", "")

\* The enclosing task of t is cancelled while its search_businesses call is
\* suspended: in `await self._client.get(...)`, or in the sleep between two
\* attempts.  In the request the error is raised inside the try block and
\* the retry decorator sees what the except clauses let through; in the
\* sleep it leaves the decorator as it is.
Cancel(t) ==
    /\ \/ call[t].state = "inflight"
       \/ call[t].state = "ready" /\ call[t].attempt_number > 1
    /\ call' = [call EXCEPT ![t] =
                   IF call[t].state = "inflight"
                   THEN AfterAttempt([@ EXCEPT !.outcomes = Append(@, Cancelled)],
                                     Body(Cancelled))
                   ELSE [@ EXCEPT !.state = "raised",
                                  !.outcomes = Append(@, Cancelled),
                                  !.exc = Exc("CancelledError", "", 0, "None")]]
    /\ UNCHANGED <<_client, conns, role, scope, scopeConn, ncalls, tool,
                   aside>>

NextCancel == Next \/ \E t \in Tasks : Cancel(t)

\* The coroutines, with cancellation.
SpecCancel == Init /\ [][NextCancel]_vars

\* The query of one call, followed on its own: the query is a function of
\* the arguments alone, whatever the connection and the upstream do.
\* search_businesses is called on an entered client with the arguments args.
QueryCall ==
    /\ query.state = "none"
    /\ \E args \in Args : query' = [state |-> "called", args |-> args]
    /\ UNCHANGED <<main, model, callback, shared>>

\* The body up to `await self._client.get("/businesses/search", params=params)`
QuerySend ==
    /\ query.state = "called"
    /\ query' = [state |-> "sent", args |-> query.args,
                 params |-> Params(query.args)]
    /\ UNCHANGED <<main, model, callback, shared>>

NextQuery == QueryCall \/ QuerySend

SpecQuery == Init /\ [][NextQuery]_vars

\* ------------------------------------------------- the search agent callback
\* Parts an LLM response may hold, at most.
MaxParts == 3

\* SEARCH_RESULTS = "SEARCH_RESULTS"
SEARCH_RESULTS == "SEARCH_RESULTS"

\* The parts of a response: two with text, one whose text is the empty
\* string, one function call (its text is None).
PartKinds ==
    {[kind |-> "text", text |-> JStr("First text")],
     [kind |-> "text", text |-> JStr("Second text")],
     [kind |-> "text", text |-> JStr("")],
     [kind |-> "function_call", text |-> JNull]}

PartLists == UNION {[1..n -> PartKinds] : n \in 0..MaxParts}

\* llm_response: None, or an object whose content is None or an object
\* whose parts are None or a list.
LlmResponses ==
    {JNull, [t |-> "response", content |-> JNull],
     [t |-> "response", content |-> [t |-> "content", parts |-> JNull]]}
    \cup {[t |-> "response",
           content |-> [t |-> "content", parts |-> JArr(parts)]] :
              parts \in PartLists}

\* callback_context.state before the callback
CallbackStates ==
    {[user |-> "u1"], [user |-> "u1", SEARCH_RESULTS |-> "earlier results"]}

\* `if part.text`
IsText(part) == Truthy(part.text)
\* `if not part.text`
IsNotText(part) == ~Truthy(part.text)

\* not llm_response or not llm_response.content
\*     or not llm_response.content.parts
NothingToProcess(llm_response) ==
    \/ llm_response.t = "null"
    \/ llm_response.content.t = "null"
    \/ ~Truthy(llm_response.content.parts)

\* text_parts = [part.text for part in llm_response.content.parts if part.text]
TextParts(parts) ==
    [i \in DOMAIN SelectSeq(parts, IsText) |-> SelectSeq(parts, IsText)[i].text.v]

\* CombinedText with the texts joined by a space.
CombinedText_Spaced(text_parts) == Join(text_parts, " ")

\* combined_text = "\n".join(text_parts)
CombinedText(text_parts) == Join(text_parts, "\n")

\* suppress_text_output_callback: the response and the state it leaves
SuppressTextOutput(llm_response, state) ==
    IF NothingToProcess(llm_response)
    THEN [llm_response |-> llm_response, state |-> state]
    ELSE IF Len(TextParts(llm_response.content.parts.v)) > 0
    THEN [llm_response |->
              [llm_response EXCEPT !.content.parts =
                  JArr(SelectSeq(llm_response.content.parts.v, IsNotText))],
          state |->
              (SEARCH_RESULTS :>
                   CombinedText(TextParts(llm_response.content.parts.v)))
              @@ state]
    ELSE [llm_response |-> llm_response, state |-> state]

\* The model answers: the framework is about to call after_model_callback.
CallbackCalled ==
    /\ callback.state = "none"
    /\ \E llm_response \in LlmResponses, state \in CallbackStates :
         callback' = [state |-> "called", llm_response |-> llm_response,
                      context |-> state]
    /\ UNCHANGED <<main, query, model, shared>>

\* suppress_text_output_callback(llm_response, callback_context)
CallbackRun ==
    /\ callback.state = "called"
    /\ callback' =
         [state |-> "done", before |-> callback.llm_response,
          before_context |-> callback.context,
          llm_response |->
              SuppressTextOutput(callback.llm_response,
                                 callback.context).llm_response,
          context |->
              SuppressTextOutput(callback.llm_response,
                                 callback.context).state]
    /\ UNCHANGED <<main, query, model, shared>>

NextCallback == CallbackCalled \/ CallbackRun

SpecCallback == Init /\ [][NextCallback]_vars

\* ------------------------------------------- one YelpClient, entered again
\* __aenter__ on the one YelpClient object, for the block s (nested in a
\* block that is still open, or in another task): a new httpx.AsyncClient
\* is assigned to self._client, whatever self._client was.
aenter(s) ==
    /\ shared.scope[s] = "outside"
    /\ shared' = [shared EXCEPT
                     !.conns = Append(@, [scope |-> s, state |-> "open"]),
                     !._client = Len(shared.conns) + 1,
                     !.scope[s] = "inside"]
    /\ UNCHANGED <<main, query, model, callback>>

\* __aexit__ on the one YelpClient object, leaving the block s:
\* `if self._client: await self._client.aclose()`.
aexit(s) ==
    /\ shared.scope[s] = "inside"
    /\ shared' = [shared EXCEPT
                     !.conns = IF aexit_closes(shared._client, NoExc)
                               THEN [@ EXCEPT ![shared._client].state = "closed"]
                               ELSE @,
                     !.scope[s] = "exited"]
    /\ UNCHANGED <<main, query, model, callback>>

NextShared == \E s \in Scopes : aenter(s) \/ aexit(s)

SpecShared == Init /\ [][NextShared]_vars

\* The methods of one Business, followed on their own.
\* A key the JSON object does not hold.
Absent == [t |-> "absent"]

\* One entry of "business_hours"
Hours(open) == JObj([hours_type |-> JStr("REGULAR"), is_open_now |-> JBool(open)])

PriceInputs ==
    {Absent, JNull, JNum(2), JStr(""), JStr("$"), JStr("$$"), JStr("$$$"),
     JStr("$$$$"), JStr("$$$$$")}

BusinessHoursInputs ==
    {Absent, JNull, JArr(<<>>), JArr(<<Hours(TRUE)>>), JArr(<<Hours(FALSE)>>),
     JArr(<<Hours(FALSE), Hours(TRUE)>>), JArr(<<Hours(TRUE), Hours(FALSE)>>),
     JArr(<<EmptyObj>>), JArr(<<EmptyObj, Hours(TRUE)>>),
     JArr(<<Hours(FALSE), Hours(FALSE), Hours(TRUE)>>)}

\* The JSON objects Business(**data) is given: the required fields, and a
\* price and business hours of every kind.
BusinessInputs ==
    {JObj([id |-> JStr("b1"), alias |-> JStr("one-london"),
           name |-> JStr("One"), url |-> JStr("https://yelp.test/b1"),
           coordinates |-> Coords, location |-> EmptyObj]
          @@ Entry(price # Absent, "price", price)
          @@ Entry(hours # Absent, "business_hours", hours)) :
        price \in PriceInputs, hours \in BusinessHoursInputs}

\* Business(**data): the object, or pydantic's ValidationError
ModelValidate ==
    /\ model.state = "none"
    /\ \E data \in BusinessInputs :
         model' = IF ValidBusiness(data)
                  THEN [state |-> "accepted", data |-> data,
                        business |-> Business(data)]
                  ELSE [state |-> "rejected", data |-> data]
    /\ UNCHANGED <<main, query, callback, shared>>

\* business.get_price_level()
ModelPriceLevel ==
    /\ model.state = "accepted"
    /\ model' = [state |-> "price_level", data |-> model.data,
                 business |-> model.business,
                 result |-> get_price_level(model.business)]
    /\ UNCHANGED <<main, query, callback, shared>>

\* business.is_open_now()
ModelIsOpenNow ==
    /\ model.state = "accepted"
    /\ model' = [state |-> "is_open_now", data |-> model.data,
                 business |-> model.business,
                 result |-> is_open_now(model.business)]
    /\ UNCHANGED <<main, query, callback, shared>>

NextModel == ModelValidate \/ ModelPriceLevel \/ ModelIsOpenNow

SpecModel == Init /\ [][NextModel]_vars

\* ----------------------------------------------------------------- claims
\* The outcome of a physical request is a transient failure: a status of
\* 500 or more, a request timeout, a connect or network error.
Transient(u) ==
    \/ u.kind = "response" /\ u.status >= 500
    \/ u.kind = "raise" /\ IsInstance(u.cls, "TimeoutException")
    \/ u.kind = "raise" /\ IsInstance(u.cls, "NetworkError")

Last(s) == s[Len(s)]

\* The call of task t ended on a request whose outcome was u.
EndedOn(t, u) ==
    /\ CallEnded(t)
    /\ Len(call[t].outcomes) > 0
    /\ Last(call[t].outcomes) = u

\* C1: a call whose every physical attempt failed transiently raises only
\* after 3 physical requests (1 initial + 2 retries).
C1_TransientFailuresTakeThreeRequests ==
    \A t \in Tasks :
        ( /\ call[t].state = "raised"
          /\ Len(call[t].outcomes) > 0
          /\ \A i \in 1..Len(call[t].outcomes) :
                Transient(call[t].outcomes[i]) )
        => call[t].requests = MaxAttempts

\* C2: a step that ends attempt 1 or 2 of a call with a transient failure
\* does not surface the failure to the caller (the call does not raise).
C2_EarlyTransientFailureNotSurfaced ==
    [][\A t \in Tasks :
          ( /\ call[t].state = "inflight"
            /\ call[t].attempt_number < MaxAttempts
            /\ Len(call'[t].outcomes) > 0
            /\ Transient(Last(call'[t].outcomes)) )
          => call'[t].state # "raised"]_vars

\* C3: once the first attempt of a call met a non-transient outcome (a 2xx
\* response, a 400, 401, 429 or any other 4xx), the call has ended and
\* exactly 1 physical request was made for it.
C3_NonTransientFirstOutcomeOneRequest ==
    \A t \in Tasks :
        ( /\ Len(call[t].outcomes) > 0
          /\ ~Transient(call[t].outcomes[1]) )
        => /\ CallEnded(t)
           /\ call[t].requests = 1
           /\ Len(call[t].outcomes) = 1
           /\ call[t].waits = <<>>

C3_Witness ==
    \E t \in Tasks :
        /\ EndedOn(t, Response(429, NotJson))
        /\ call[t].requests = 1

\* C4: a call on a client whose scope was never entered raises the
\* RuntimeError 'Client not initialised' at once: no physical request, no
\* second attempt, no YelpAPIError.
C4_NeverEnteredFailsLocally ==
    \A t \in Tasks :
        (_client[t] = None /\ call[t].state # "none")
        => /\ call[t].state \in {"ready", "raised"}
           /\ call[t].requests = 0
           /\ call[t].attempt_number = 1
           /\ call[t].waits = <<>>
           /\ call[t].state = "raised" =>
                 /\ call[t].exc.cls = "RuntimeError"
                 /\ call[t].exc.msg =
                        "Client not initialised. Use async context manager."
                 /\ ~IsInstance(call[t].exc.cls, "YelpAPIError")

C4_Witness ==
    \E t \in Tasks :
        /\ _client[t] = None
        /\ scope[t] = "outside"
        /\ call[t].state = "raised"
        /\ call[t].exc.cls = "RuntimeError"

\* C5: after a task left the scope of its YelpClient, by any exit path, the
\* connection opened on entry is closed; search_yelp_businesses has closed
\* it whenever it has returned a payload.
C5_ConnectionClosedOnEveryExit ==
    \A t \in Tasks :
        ( /\ scope[t] = "exited" \/ tool[t].state # "none"
          /\ scopeConn[t] # None )
        => conns[scopeConn[t]].state = "closed"

C5_Witness ==
    \E t \in Tasks :
        /\ tool[t].state = "returned"
        /\ call[t].state = "raised"
        /\ IsInstance(call[t].exc.cls, "YelpAPIError")
        /\ scopeConn[t] # None
        /\ conns[scopeConn[t]].state = "closed"

PayloadKeys == {"businesses", "total", "count", "summary"}

\* C6: search_yelp_businesses never raises; whatever the client call came
\* to, it returns a dict with the keys businesses, total, count, summary.
C6_ToolNeverRaises ==
    \A t \in Tasks :
        /\ tool[t].state # "raised"
        /\ tool[t].state = "returned" =>
              PayloadKeys \subseteq DOMAIN tool[t].payload

C6_Witness ==
    \E t \in Tasks :
        /\ tool[t].state = "returned"
        /\ call[t].state = "returned"
        /\ tool[t].caught = CloseError
        /\ PayloadKeys \subseteq DOMAIN tool[t].payload

\* C7: the payload has the key 'error' exactly when the client call failed
\* (an exception left the `async with` block); then businesses is empty,
\* total and count are 0 and error is the message of that exception.
C7_ErrorKeyIffCallFailed ==
    \A t \in Tasks :
        tool[t].state = "returned" =>
            /\ "error" \in DOMAIN tool[t].payload <=> tool[t].caught # NoExc
            /\ call[t].state = "raised" => tool[t].caught # NoExc
            /\ call[t].state = "none" => tool[t].caught # NoExc
            /\ tool[t].caught = NoExc => call[t].state = "returned"
            /\ "error" \in DOMAIN tool[t].payload =>
                  /\ tool[t].payload.businesses = <<>>
                  /\ tool[t].payload.total = 0
                  /\ tool[t].payload.count = 0
                  /\ tool[t].payload.error = tool[t].caught.msg
                  /\ tool[t].caught \in {call[t].exc, OpenError, CloseError}

C7_Witness ==
    \E t \in Tasks :
        /\ tool[t].state = "returned"
        /\ EndedOn(t, Response(404, NotJson))
        /\ tool[t].payload.error = call[t].exc.msg
        /\ tool[t].payload.businesses = <<>>

\* C8: a 401 makes search_businesses raise YelpAuthError and a 429
\* YelpRateLimitError, with different messages; the tool renders either as
\* a payload with a non-empty error and no businesses.
C8_AuthAndRateLimitErrors ==
    \A t \in Tasks :
        /\ EndedOn(t, Response(401, NotJson)) =>
              /\ call[t].state = "raised"
              /\ call[t].exc.cls = "YelpAuthError"
              /\ call[t].exc.msg = "Invalid Yelp API key"
        /\ EndedOn(t, Response(429, NotJson)) =>
              /\ call[t].state = "raised"
              /\ call[t].exc.cls = "YelpRateLimitError"
              /\ call[t].exc.msg = "Yelp API rate limit exceeded"
              /\ call[t].exc.msg # "Invalid Yelp API key"
        /\ ( /\ tool[t].state = "returned"
             /\ tool[t].caught.cls \in {"YelpAuthError", "YelpRateLimitError"} )
           => /\ "error" \in DOMAIN tool[t].payload
              /\ tool[t].payload.error = tool[t].caught.msg
              /\ tool[t].payload.error # ""
              /\ tool[t].payload.businesses = <<>>

C8_Witness ==
    \E t \in Tasks :
        /\ EndedOn(t, Response(429, NotJson))
        /\ tool[t].state = "returned"
        /\ tool[t].caught.cls = "YelpRateLimitError"
        /\ tool[t].payload.error = "Yelp API rate limit exceeded"

\* The description a 400 body carries: the body parses to an object whose
\* "error" is an object with a string "description".
CarriesDescription(body) ==
    /\ body.t = "obj"
    /\ Has(body, "error")
    /\ body.v["error"].t = "obj"
    /\ Has(body.v["error"], "description")
    /\ body.v["error"].v["description"].t = "str"

\* C9: on every 400 response search_businesses raises a YelpAPIError whose
\* message is 'Bad request: ' followed by the upstream description when the
\* body carries one and by the raw error text otherwise (unparseable body
\* and missing description included).
C9_BadRequestMessage ==
    \A t \in Tasks :
        \A body \in BadRequestBodies :
            EndedOn(t, Response(400, body)) =>
                /\ call[t].state = "raised"
                /\ IsInstance(call[t].exc.cls, "YelpAPIError")
                /\ call[t].exc.msg =
                      "Bad request: "
                          \o (IF CarriesDescription(body)
                              THEN body.v["error"].v["description"].v
                              ELSE StatusText(400))

\* C10: a request timeout leaves search_businesses as the YelpAPIError
\* 'Yelp API request timed out', a connect or network error as the
\* YelpAPIError 'Network error: ...'; a timeout never carries the
\* network-error message.
C10_TimeoutAndNetworkFailures ==
    \A t \in Tasks :
        \A u \in Upstream :
            (u.kind = "raise" /\ EndedOn(t, u)) =>
                /\ IsInstance(u.cls, "TimeoutException") =>
                      /\ call[t].state = "raised"
                      /\ call[t].exc.cls = "YelpAPIError"
                      /\ call[t].exc.msg = "Yelp API request timed out"
                      /\ call[t].exc.msg # "Network error: " \o u.text
                      /\ call[t].exc.cause = u.cls
                /\ IsInstance(u.cls, "NetworkError") =>
                      /\ call[t].state = "raised"
                      /\ call[t].exc.cls = "YelpAPIError"
                      /\ call[t].exc.msg = "Network error: " \o u.text
                      /\ call[t].exc.cause = u.cls

C10_Witness ==
    \E t \in Tasks :
        /\ EndedOn(t, Raises("ReadTimeout", "The read operation timed out"))
        /\ call[t].exc.msg = "Yelp API request timed out"

\* C11: every failure that leaves search_businesses on an entered client is
\* a YelpAPIError (or a subclass) that keeps the original exception as its
\* cause; no raw HTTP-library, JSON or validation exception escapes.
C11_EveryFailureTranslated ==
    \A t \in Tasks :
        (call[t].state = "raised" /\ _client[t] # None)
        => /\ IsInstance(call[t].exc.cls, "YelpAPIError")
           /\ call[t].exc.cause # "None"

\* The caller supplied the argument: passed it, and not as None.
Supplied(arg) == arg # NotPassed /\ arg # JNull

\* C12: the limit transmitted is min(limit, 50): a limit above 50 goes out
\* as exactly 50, a limit of at most 50 unchanged, and whatever the limit
\* the call gets as far as sending its query.
C12_LimitClampedTo50 ==
    /\ query.state = "called" => ENABLED QuerySend
    /\ query.state = "sent" =>
          /\ "limit" \in DOMAIN query.params
          /\ \A n \in {-1, 0, 1, 10, 20, 50, 51, 100} :
                query.args.limit = JNum(n) =>
                    query.params["limit"] = JNum(IF n > 50 THEN 50 ELSE n)

C12_Witness ==
    /\ query.state = "sent"
    /\ query.args.limit = JNum(100)
    /\ query.params["limit"] = JNum(50)

\* C13: a supplied radius is transmitted, as exactly 40000 when it is above
\* 40000 and unchanged when it is at most 40000.
C13_RadiusClampedTo40000 ==
    (query.state = "sent" /\ Supplied(query.args.radius))
    => /\ "radius" \in DOMAIN query.params
       /\ query.params["radius"] =
             JNum(IF query.args.radius.v > 40000 THEN 40000
                  ELSE query.args.radius.v)

CriteriaFields ==
    {"term", "categories", "price", "radius", "limit", "sort_by", "open_now"}

C15_OpenNowLowercase ==
    query.state = "sent" =>
        /\ query.args.open_now = JBool(TRUE) =>
              /\ "open_now" \in DOMAIN query.params
              /\ query.params["open_now"] = JStr("true")
        /\ query.args.open_now = JBool(FALSE) =>
              /\ "open_now" \in DOMAIN query.params
              /\ query.params["open_now"] = JStr("false")
        /\ query.args.open_now \in {JNull, NotPassed} =>
              "open_now" \notin DOMAIN query.params

C15_Witness ==
    /\ query.state = "sent"
    /\ query.args.open_now = JBool(FALSE)
    /\ "open_now" \in DOMAIN query.params
    /\ query.params["open_now"] = JStr("false")

\* The 2xx bodies whose business list is the empty list.
EmptyListBodies ==
    {b \in OkBodies :
        b.t = "obj" /\ Has(b, "businesses") /\ b.v["businesses"] = JArr(<<>>)}

\* C16: a 2xx response with an empty business list, its total 0 or more,
\* is no error: search_businesses returns, and unless closing the
\* connection failed the payload of search_yelp_businesses has no error
\* key, no businesses, count 0, the upstream total as total and the summary
\* 'Found 0 businesses'.
C16_EmptyListIsNotAnError ==
    \A t \in Tasks :
        \A b \in EmptyListBodies :
            EndedOn(t, Response(200, b)) =>
                /\ call[t].state = "returned"
                /\ tool[t].state = "returned" =>
                      /\ tool[t].caught \in {NoExc, CloseError}
                      /\ tool[t].caught = NoExc =>
                            /\ "error" \notin DOMAIN tool[t].payload
                            /\ tool[t].payload.businesses = <<>>
                            /\ tool[t].payload.count = 0
                            /\ tool[t].payload.total = b.v["total"].v
                            /\ tool[t].payload.summary = "Found 0 businesses"

C16_Witness ==
    \E t \in Tasks :
        /\ EndedOn(t, Response(200, JObj([businesses |-> JArr(<<>>),
                                          total |-> JNum(3)])))
        /\ tool[t].state = "returned"
        /\ "error" \notin DOMAIN tool[t].payload
        /\ tool[t].payload.total = 3
        /\ tool[t].payload.count = 0

\* C17: is_open_now() is true exactly when the business has at least one
\* business_hours entry and the first entry's is_open_now is true; with no
\* entry it is false, and the entries after the first play no part.
C17_FirstEntryDecidesOpenNow ==
    model.state = "is_open_now" =>
        LET hours == Items(model.data, "business_hours")
        IN  model.result
                <=> /\ Len(hours) > 0
                    /\ Get(hours[1], "is_open_now", JBool(FALSE)) = JBool(TRUE)

C17_Witness ==
    /\ model.state = "is_open_now"
    /\ Get(model.data, "business_hours", JNull)
          = JArr(<<Hours(FALSE), Hours(TRUE)>>)
    /\ model.result = FALSE

\* C18: every Business of a SearchResponse that search_businesses returned
\* has a rating from 0 to 5 (0 to 50 tenths), a review count of at least 0
\* and, when it has a distance, a distance of at least 0.
C18_ReturnedBusinessesInRange ==
    \A t \in Tasks :
        call[t].state = "returned" =>
            \A i \in DOMAIN call[t].value.businesses :
                LET b == call[t].value.businesses[i]
                IN  /\ 0 <= b.rating /\ b.rating <= 50
                    /\ b.review_count >= 0
                    /\ b.distance.t = "num" => b.distance.v >= 0

\* C19: get_price_level() is the number of characters of the price, 0 when
\* the business has no price, and lies in 0..4.
C19_PriceLevelWithin0To4 ==
    model.state = "price_level" =>
        /\ model.result =
              (IF Get(model.data, "price", JNull).t = "str"
               THEN Len(model.data.v["price"].v) ELSE 0)
        /\ model.result \in 0..4

\* The businesses that lack a required field or hold a value its field
\* cannot take.
Unacceptable == {BizNoId, BizNoCoordinates, BizNameNumber, BizRatingWord}

\* The call of task t failed with a translation of pydantic's
\* ValidationError, after one physical request.
FailedValidationOnce(t) ==
    /\ call[t].state = "raised"
    /\ IsInstance(call[t].exc.cls, "YelpAPIError")
    /\ call[t].exc.cause = "ValidationError"
    /\ call[t].requests = 1
    /\ call[t].waits = <<>>

\* C20 as stated: a 2xx body with a business that lacks a required field
\* or holds a value of the wrong type makes search_businesses fail with a
\* translated failure after exactly 1 physical request.
C20_MalformedBusinessFails ==
    \A t \in Tasks :
        \A b \in Unacceptable \cup {BizReviewCountString} :
            EndedOn(t, Response(200, OneBusiness(b))) => FailedValidationOnce(t)

\* C20: a 2xx body with a business that lacks a required field, or holds a
\* value its field cannot convert, makes search_businesses fail with a
\* translated failure after exactly 1 physical request, and no
\* SearchResponse is returned; a string of digits where a number is
\* declared is converted to that number, not replaced by the default.
C20_UnacceptableBusinessFails ==
    \A t \in Tasks :
        /\ \A b \in Unacceptable :
              EndedOn(t, Response(200, OneBusiness(b))) =>
                  /\ FailedValidationOnce(t)
                  /\ call[t].value = NoResponse
        /\ EndedOn(t, Response(200, OneBusiness(BizReviewCountString))) =>
              /\ call[t].state = "returned"
              /\ call[t].requests = 1
              /\ call[t].value.businesses[1].review_count = 100

C20_Witness ==
    \E t \in Tasks :
        /\ EndedOn(t, Response(200, OneBusiness(BizNameNumber)))
        /\ call[t].state = "raised"
        /\ call[t].exc.cause = "ValidationError"
        /\ call[t].requests = 1

\* C21: a call that met a 5xx response on every physical attempt and has
\* ended waited 1 second before its second attempt and 2 seconds before
\* its third, and waited no more after the third.
C21_BackoffWaitsOneThenTwo ==
    \A t \in Tasks :
        ( /\ CallEnded(t)
          /\ Len(call[t].outcomes) > 0
          /\ \A i \in 1..Len(call[t].outcomes) :
                /\ call[t].outcomes[i].kind = "response"
                /\ call[t].outcomes[i].status >= 500 )
        => call[t].waits = <<1, 2>>

\* C22: once a cancellation has reached a search_businesses call in flight,
\* the call has ended: the cancellation is its last outcome, no physical
\* request and no wait of that call follows it, and what the call raises
\* is the CancelledError itself, not a YelpAPIError.
C22_CancellationEndsTheCall ==
    \A t \in Tasks :
        \A i \in DOMAIN call[t].outcomes :
            call[t].outcomes[i] = Cancelled =>
                /\ i = Len(call[t].outcomes)
                /\ call[t].state = "raised"
                /\ call[t].exc.cls = "CancelledError"
                /\ ~IsInstance(call[t].exc.cls, "YelpAPIError")
                /\ call[t].requests = i
                /\ Len(call[t].waits) < i

C22_Witness ==
    \E t \in Tasks :
        /\ role[t] = "tool"
        /\ EndedOn(t, Cancelled)
        /\ call[t].exc.cls = "CancelledError"
        /\ call[t].requests = 1
        /\ tool[t].state = "raised"
        /\ conns[scopeConn[t]].state = "closed"

\* C23: concurrent search_yelp_businesses invocations each use the
\* connection they opened themselves: the connection of an invocation is
\* its own and no other invocation's, the request of an invocation in
\* flight is on its own connection and that connection is open, and a
\* connection changes (is closed) only in a step in which the invocation
\* that opened it leaves its scope, a step that changes nothing of any
\* other invocation.
C23_InvocationsOwnTheirConnections ==
    /\ [](\A t \in Tasks :
            role[t] = "tool" =>
                /\ _client[t] # None =>
                      /\ conns[_client[t]].owner = t
                      /\ \A o \in Tasks \ {t} : _client[o] # _client[t]
                /\ call[t].state = "inflight" =>
                      /\ call[t].conn = _client[t]
                      /\ conns[call[t].conn].state = "open")
    /\ [][\A c \in DOMAIN conns :
              conns'[c] # conns[c] =>
                  LET t == conns[c].owner
                  IN  /\ c = scopeConn[t]
                      /\ scope[t] = "inside" /\ scope'[t] = "exited"
                      /\ \A o \in Tasks \ {t} :
                            /\ _client'[o] = _client[o]
                            /\ call'[o] = call[o]
                            /\ tool'[o] = tool[o]
                            /\ scope'[o] = scope[o]]_vars

C23_Witness ==
    \E t, o \in Tasks :
        /\ t # o
        /\ role[t] = "tool" /\ role[o] = "tool"
        /\ tool[t].state = "returned"
        /\ scopeConn[t] # None
        /\ conns[scopeConn[t]].state = "closed"
        /\ call[o].state = "inflight"
        /\ call[o].conn # scopeConn[t]
        /\ conns[call[o].conn].state = "open"

\* The tool of task t returned the payload of a search that succeeded on
\* the 2xx body b.
Succeeded(t, b) ==
    /\ EndedOn(t, Response(200, b))
    /\ call[t].state = "returned"
    /\ tool[t].state = "returned"
    /\ "error" \notin DOMAIN tool[t].payload

\* C24: the businesses of a success payload are those of the upstream
\* response, as many and in the same order: position i of the payload is
\* upstream business i.
C24_PayloadKeepsUpstreamOrder ==
    \A t \in Tasks :
        \A b \in OkBodies :
            Succeeded(t, b) =>
                /\ Len(tool[t].payload.businesses) = Len(Items(b, "businesses"))
                /\ tool[t].payload.count = Len(Items(b, "businesses"))
                /\ \A i \in DOMAIN Items(b, "businesses") :
                      /\ tool[t].payload.businesses[i].id
                            = Items(b, "businesses")[i].v["id"].v
                      /\ tool[t].payload.businesses[i].name
                            = Items(b, "businesses")[i].v["name"].v

C24_Witness ==
    \E t \in Tasks :
        /\ Succeeded(t, JObj([businesses |-> JArr(<<Biz2, Biz1>>),
                              total |-> JNum(2)]))
        /\ tool[t].payload.businesses[1].id = "b2"
        /\ tool[t].payload.businesses[2].id = "b1"

\* The upstream business holds a string for the key, and not the empty one.
Present(j, k) == Has(j, k) /\ j.v[k].t = "str" /\ j.v[k].v # ""

\* C25: in a success payload the phone of a business is its display phone
\* when it has one, else its raw phone when it has one, else 'N/A'; its
\* price is its price string when it has one and 'N/A' otherwise.
C25_PhoneAndPriceFallback ==
    \A t \in Tasks :
        \A b \in OkBodies :
            Succeeded(t, b) =>
                \A i \in DOMAIN Items(b, "businesses") :
                    LET j == Items(b, "businesses")[i]
                        d == tool[t].payload.businesses[i]
                    IN  /\ d.phone =
                              (IF Present(j, "display_phone")
                               THEN j.v["display_phone"]
                               ELSE IF Present(j, "phone") THEN j.v["phone"]
                               ELSE JStr("N/A"))
                        /\ d.price =
                              (IF Present(j, "price") THEN j.v["price"]
                               ELSE JStr("N/A"))

C25_Witness ==
    \E t \in Tasks :
        /\ Succeeded(t, JObj([businesses |-> JArr(<<Biz2, Biz1>>),
                              total |-> JNum(2)]))
        /\ tool[t].payload.businesses[1].phone = JStr("+442000000002")
        /\ tool[t].payload.businesses[1].price = JStr("N/A")
        /\ tool[t].payload.businesses[2].phone = JStr("020 0000 0001")
        /\ tool[t].payload.businesses[2].price = JStr("$$")

\* C29: in a success payload distance_meters and distance_miles are null
\* exactly when the upstream business has no distance; a business with a
\* distance, 0 included, gets numbers for both.
C29_DistanceNullIffAbsent ==
    \A t \in Tasks :
        \A b \in OkBodies :
            Succeeded(t, b) =>
                \A i \in DOMAIN Items(b, "businesses") :
                    LET j == Items(b, "businesses")[i]
                        d == tool[t].payload.businesses[i]
                        absent == Get(j, "distance", JNull) = JNull
                    IN  /\ d.distance_meters = JNull <=> absent
                        /\ d.distance_miles = JNull <=> absent
                        /\ ~absent => /\ d.distance_meters.t = "num"
                                      /\ d.distance_miles.t = "num"

\* C26: a search_businesses call made on a client whose scope has been
\* exited fails at once with the misuse error (RuntimeError), without a
\* physical request and without being translated into a YelpAPIError.
C26_UseAfterExitIsMisuse ==
    \A t \in Tasks :
        ( /\ scope[t] = "exited"
          /\ call[t].state = "raised"
          /\ call[t].requests = 0 )
        => /\ call[t].exc.cls = "RuntimeError"
           /\ ~IsInstance(call[t].exc.cls, "YelpAPIError")
           /\ call[t].waits = <<>>

\* The parts of the response the callback was given (none when the
\* response, its content or its parts are missing).
PartsBefore ==
    IF callback.before.t = "null" THEN <<>>
    ELSE IF callback.before.content.t = "null" THEN <<>>
    ELSE IF callback.before.content.parts.t = "null" THEN <<>>
    ELSE callback.before.content.parts.v

\* C27: when the response has a part with text, state[SEARCH_RESULTS] is
\* the texts joined by newline in their order, the rest of the state is as
\* it was, and the response keeps exactly its parts without text, in their
\* order; when the response, its content or its parts are missing, or no
\* part has text, neither the state nor the response is changed.
C27_TextMovesToState ==
    callback.state = "done" =>
        IF \E i \in DOMAIN PartsBefore : PartsBefore[i].text \notin {JNull, JStr("")}
        THEN /\ callback.context[SEARCH_RESULTS]
                   = Join(TextParts(PartsBefore), "\n")
             /\ DOMAIN callback.context
                   = DOMAIN callback.before_context \cup {SEARCH_RESULTS}
             /\ \A k \in DOMAIN callback.before_context \ {SEARCH_RESULTS} :
                   callback.context[k] = callback.before_context[k]
             /\ callback.llm_response.content.parts
                   = JArr(SelectSeq(PartsBefore, IsNotText))
        ELSE /\ callback.context = callback.before_context
             /\ callback.llm_response = callback.before

C27_Witness ==
    /\ callback.state = "done"
    /\ PartsBefore = <<[kind |-> "text", text |-> JStr("First text")],
                       [kind |-> "function_call", text |-> JNull],
                       [kind |-> "text", text |-> JStr("Second text")]>>
    /\ callback.context[SEARCH_RESULTS] = "First text\nSecond text"
    /\ callback.llm_response.content.parts
          = JArr(<<[kind |-> "function_call", text |-> JNull]>>)

\* What is left of a call at most: 2 steps (send, receive) for each of the
\* requests it may still make.
StepsLeft(c) == 2 * MaxAttempts - (c.requests + Len(c.outcomes))

\* C28: every search_businesses call ends, by returning or by raising,
\* after at most 3 physical requests, whatever the upstream outcomes are,
\* provided every request that was sent completes or times out: a call
\* never makes a 4th request, a call in progress is always waiting either
\* to send or for its request to complete, and each such step ends the
\* call or uses up one of the at most 6 steps it has.
C28_CallTerminatesWithinThreeRequests ==
    /\ [](\A t \in Tasks :
             /\ call[t].requests <= MaxAttempts
             /\ Len(call[t].outcomes) <= call[t].requests
             /\ StepsLeft(call[t]) >= 0
             /\ InCall(t) => StepsLeft(call[t]) > 0)
    /\ [][\A t \in Tasks :
             (InCall(t) /\ call'[t] # call[t])
             => \/ call'[t].state \in {"returned", "raised"}
                \/ /\ call'[t].state \in {"ready", "inflight"}
                   /\ StepsLeft(call'[t]) < StepsLeft(call[t])]_vars

C28_Witness ==
    \E t \in Tasks :
        /\ call[t].state = "raised"
        /\ call[t].requests >= 1
        /\ Len(call[t].outcomes) = call[t].requests
        /\ Transient(Last(call[t].outcomes))

\* C30: once every scope entered on a YelpClient object has exited, every
\* connection opened by entering it is closed, also when the object was
\* entered again before an earlier scope exited.
C30_NoConnectionLeftOpen ==
    (\A s \in Scopes : shared.scope[s] # "inside")
    => \A i \in DOMAIN shared.conns : shared.conns[i].state = "closed"

====
